---- MODULE Spec2Model ----
(***************************************************************************)
(* Model of the proactive weather-monitoring agent (src/weather_agent.py): *)
(* the in-memory session map and the session objects it refers to, the     *)
(* sqlite tables user_sessions and alert_history, the polling loop         *)
(* monitor_all_users with its local variables, the request handlers and    *)
(* the service start/stop switch.                                          *)
(*                                                                         *)
(* Time is counted in minutes.  Temperatures are whole degrees Celsius,    *)
(* precipitation is counted in tenths of a millimetre per hour.            *)
(***************************************************************************)
EXTENDS Integers, Sequences, FiniteSets, TLC

VARIABLES
    clock,            \* datetime.now(), in minutes
    active_sessions,  \* self.active_sessions: insertion-ordered dict user_id -> session object
    heap,             \* the session dict objects; a reference is an index
    user_sessions,    \* sqlite table user_sessions, in rowid order
    alert_history,    \* sqlite table alert_history, in id order
    running,          \* self.running
    poller,           \* local state of every thread executing monitor_all_users
    caller,           \* position of every thread inside start_monitoring
    registered,       \* observation: the session each user last registered
    last_event        \* observation: what the step just taken did, for the properties

vars == <<clock, active_sessions, heap, user_sessions, alert_history,
          running, poller, caller, registered, last_event>>

-----------------------------------------------------------------------------
(* Bounds of the model *)

MaxTime == 30
MaxRefs == 2
MaxHistory == 2
MaxPollers == 2

(* Program constants *)

temp_change == 5
precipitation_start_tenths == 5
wind_speed == 10
check_interval == 5
backoff_sleep == 1
alert_cooldown_default == 30
forecast_window == 3
desc_limit == 100

NoTime == 0 - 1
NoRef == 0

Users == {"u1", "u2"}
\* the clock is read three polling intervals apart
TickStep == 3 * check_interval

\* the longest forecast list, the most entries of it that lie in the past, and
\* the most official alerts a detection is given
MaxForecast == 4
MaxPast == 2
MaxAlerts == 2

-----------------------------------------------------------------------------
(* Python dict helpers *)

\* d.get(k, default)
Get(d, k, default) == IF k \in DOMAIN d THEN d[k] ELSE default

Min(a, b) == IF a <= b THEN a ELSE b
Abs(x) == IF x < 0 THEN 0 - x ELSE x

\* position of key k in the insertion-ordered dict m (0 when absent)
DictIndex(m, k) ==
    IF \E i \in 1..Len(m) : m[i].key = k
    THEN CHOOSE i \in 1..Len(m) : m[i].key = k
    ELSE 0

DictHas(m, k) == DictIndex(m, k) # 0

DictGet(m, k) == IF DictHas(m, k) THEN m[DictIndex(m, k)].ref ELSE NoRef

\* m[k] = r : an existing key keeps its position, a new key goes last
DictSet(m, k, r) ==
    IF DictHas(m, k)
    THEN [m EXCEPT ![DictIndex(m, k)] = [key |-> k, ref |-> r]]
    ELSE Append(m, [key |-> k, ref |-> r])

\* del m[k]
DictDel(m, k) == SelectSeq(m, LAMBDA e : e.key # k)

-----------------------------------------------------------------------------
(* Conversions used by the durable store *)

\* datetime.isoformat(): a fixed-width text, here <<hours, minutes>>
isoformat(t) == <<t \div 60, t % 60>>

\* datetime.fromisoformat()
fromisoformat(s) == s[1] * 60 + s[2]

\* the comparison sqlite makes between two TEXT values: left to right
TextGreater(a, b) ==
    \E i \in 1..Min(Len(a), Len(b)) :
        /\ a[i] > b[i]
        /\ \A j \in 1..(i - 1) : a[j] = b[j]

\* SQL NULL in a TEXT column
Null == <<>>

KeyOrder == <<"email", "push", "log_file", "severity_threshold", "main", "weather",
              "cod", "message">>

\* json.dumps of a dict: the text lists each key with its value
json_dumps(d) ==
    LET keys == SelectSeq(KeyOrder, LAMBDA k : k \in DOMAIN d)
    IN  [i \in 1..Len(keys) |-> <<keys[i], d[keys[i]]>>]

\* json.loads of such a text
json_loads(s) ==
    [k \in {s[i][1] : i \in 1..Len(s)} |->
        s[CHOOSE i \in 1..Len(s) : s[i][1] = k][2]]

-----------------------------------------------------------------------------
(* WeatherChangeDetector: check_weather_changes and its helpers *)

MakeWarning(type, message, severity, source) ==
    [type |-> type, message |-> message, severity |-> severity, source |-> source]

\* current.get("weather", [{}])[0].get("main", "")
Condition(d) ==
    LET w == Get(d, "weather", <<[none |-> TRUE]>>)
    IN  Get(w[1], "main", "")

\* "Rain" in c_cond
ContainsRain(c_cond) == c_cond \in {"Rain", "Freezing Rain"}

HasTemp(d) == "main" \in DOMAIN d /\ "temp" \in DOMAIN d.main

\* a severe-weather test that does not look at the current condition
SevereRuleAlways(c_cond, f_cond) == f_cond \in {"Thunderstorm", "Snow"}

\* line 313: c_cond != f_cond and f_cond in ["Thunderstorm", "Snow"]
SevereRule(c_cond, f_cond) == c_cond # f_cond /\ f_cond \in {"Thunderstorm", "Snow"}

\* the warnings one forecast entry adds, lines 272-320
ItemWarnings(current, item, now) ==
    LET c_has  == HasTemp(current)
        c_cond == Condition(current)
        f_time == item.dt
        f_has  == HasTemp(item)
        f_cond == Condition(item)
        f_rain == Get(Get(item, "rain", [none |-> 0]), "1h", 0)
        f_wind == Get(Get(item, "wind", [none |-> 0]), "speed", 0)
        delta  == item.main.temp - current.main.temp
        tempW  == IF c_has /\ f_has /\ Abs(delta) >= temp_change
                  THEN <<MakeWarning("upcoming_temp_change",
                            [direction |-> IF delta < 0 THEN "drop" ELSE "rise",
                             delta |-> Abs(delta), at |-> f_time,
                             c_temp |-> current.main.temp, f_temp |-> item.main.temp],
                            "medium", "threshold")>>
                  ELSE <<>>
        rainW  == IF f_rain > precipitation_start_tenths /\ ~ContainsRain(c_cond)
                  THEN <<MakeWarning("rain_starting",
                            [at |-> f_time, rain |-> f_rain], "medium", "threshold")>>
                  ELSE <<>>
        windW  == IF f_wind > wind_speed
                  THEN <<MakeWarning("high_wind",
                            [at |-> f_time, wind |-> f_wind], "medium", "threshold")>>
                  ELSE <<>>
        severe == IF SevereRule(c_cond, f_cond)
                  THEN <<MakeWarning("severe_weather",
                            [at |-> f_time, cond |-> f_cond], "high", "threshold")>>
                  ELSE <<>>
    IN  IF f_time <= now THEN <<>> ELSE tempW \o rainW \o windW \o severe

RECURSIVE ItemsWarnings(_, _, _)
ItemsWarnings(current, items, now) ==
    IF items = <<>> THEN <<>>
    ELSE ItemWarnings(current, Head(items), now)
            \o ItemsWarnings(current, Tail(items), now)

\* forecast.get("list", [])[:3]
FirstEntries(forecast) ==
    LET l == Get(forecast, "list", <<>>)
    IN  SubSeq(l, 1, Min(forecast_window, Len(l)))

_check_upcoming_changes(current, forecast, now) ==
    ItemsWarnings(current, FirstEntries(forecast), now)

\* a baseline test that needs more than the threshold
BaselineBreachStrict(diff) == diff > temp_change

\* line 233: diff >= self.alert_thresholds["temp_change"]
BaselineBreach(diff) == diff >= temp_change

_check_threshold_alerts(session_data, current, forecast, now) ==
    LET baseline == session_data.baseline_weather
        diff     == Abs(current.main.temp - baseline.main.temp)
        base     == IF HasTemp(baseline) /\ HasTemp(current) /\ BaselineBreach(diff)
                    THEN <<MakeWarning("temperature_change",
                              [diff |-> diff, b_temp |-> baseline.main.temp,
                               c_temp |-> current.main.temp],
                              "medium", "threshold")>>
                    ELSE <<>>
        upcoming == IF Get(forecast, "list", <<>>) # <<>>
                    THEN _check_upcoming_changes(current, forecast, now)
                    ELSE <<>>
    IN  base \o upcoming

\* alert.get('desc','')[:100]
Truncate(desc) == SubSeq(desc, 1, Min(desc_limit, Len(desc)))

\* official alerts of which only the first is reported
OfficialWarningsFirstOnly(alerts_data) ==
    IF alerts_data = <<>> THEN <<>>
    ELSE <<MakeWarning("severe_alert",
              [event |-> Get(alerts_data[1], "event", "Weather Alert"),
               desc  |-> Get(alerts_data[1], "desc", <<>>)],
              "high", "official_alert")>>

\* lines 206-215: one warning per official alert
OfficialWarnings(alerts_data) ==
    [i \in 1..Len(alerts_data) |->
        MakeWarning("severe_alert",
            [event |-> Get(alerts_data[i], "event", "Weather Alert"),
             desc  |-> Truncate(Get(alerts_data[i], "desc", <<>>))],
            "high", "official_alert")]

\* a detection that reports the official alerts first
check_weather_changes_official_first(session_data, current, forecast, alerts_data, now) ==
    OfficialWarnings(alerts_data)
        \o _check_threshold_alerts(session_data, current, forecast, now)

\* check_weather_changes when the three fetches return (gpt_analysis_enabled is False)
check_weather_changes(session_data, current, forecast, alerts_data, now) ==
    _check_threshold_alerts(session_data, current, forecast, now)
        \o OfficialWarnings(alerts_data)

-----------------------------------------------------------------------------
(* SessionRegistry: session objects and the user_sessions table *)

NoEmail == ""

\* lines 95-101
DefaultPrefs(email) ==
    [email |-> email # NoEmail, push |-> TRUE, log_file |-> TRUE,
     severity_threshold |-> "medium"]

\* f"{lat:.2f}, {lon:.2f}"
CoordString(lat, lon) == ToString(lat) \o ".00, " \o ToString(lon) \o ".00"

\* geo_utils_helper.is_valid_coordinates
is_valid_coordinates(lat, lon) ==
    0 - 90 <= lat /\ lat <= 90 /\ 0 - 180 <= lon /\ lon <= 180

\* None
NoName == ""

\* reverse_geolocate without its last resort: no name when both lookups fail
reverse_geolocate_unnamed(lat, lon, found) ==
    IF ~is_valid_coordinates(lat, lon) THEN NoName ELSE found

\* geo_utils_helper.reverse_geolocate; `found` is the name the two lookups
\* come up with, NoName when both fail
reverse_geolocate(lat, lon, found) ==
    IF ~is_valid_coordinates(lat, lon) THEN NoName
    ELSE IF found # NoName THEN found
    ELSE "Location " \o CoordString(lat, lon)

\* get_openweather_current: requests.get(url).json() raises, or returns the
\* body of the answer, which for an HTTP error is an error object
Raised == [raised |-> TRUE]
Returned(body) == [raised |-> FALSE, body |-> body]
ErrorBody == [cod |-> "400", message |-> "wrong latitude"]

\* the dict built at lines 103-116
NewSession(req, location_name, current_weather, now) ==
    [lat |-> req.lat, lon |-> req.lon,
     location_name |-> location_name,
     email |-> req.email,
     start_time |-> now,
     end_time |-> now + req.duration,
     last_check |-> now,
     baseline_weather |-> current_weather,
     last_alert_time |-> NoTime,
     alert_cooldown |-> alert_cooldown_default,
     notification_prefs |->
        IF req.has_prefs THEN req.notification_prefs ELSE DefaultPrefs(req.email),
     alert_count |-> 0]

\* the row INSERT OR REPLACE writes, lines 139-153; last_alert_time is not a
\* column of the statement and stays NULL
SessionRow(user_id, session_data) ==
    [user_id |-> user_id,
     email |-> session_data.email,
     lat |-> session_data.lat, lon |-> session_data.lon,
     location_name |-> session_data.location_name,
     start_time |-> isoformat(session_data.start_time),
     end_time |-> isoformat(session_data.end_time),
     baseline_weather |-> json_dumps(session_data.baseline_weather),
     last_alert_time |-> Null,
     notification_preferences |-> json_dumps(session_data.notification_prefs)]

\* the statement as a plain INSERT: an earlier row of the user stays
save_session_insert(table, user_id, session_data) ==
    Append(table, SessionRow(user_id, session_data))

\* lines 136-153
_save_session_to_db(table, user_id, session_data) ==
    Append(SelectSeq(table, LAMBDA r : r.user_id # user_id),
           SessionRow(user_id, session_data))

\* the selection with >= in place of >
RowIsLiveOrDue(row, now) == row.end_time = isoformat(now) \/ TextGreater(row.end_time, isoformat(now))

\* WHERE end_time > ?
RowIsLive(row, now) == TextGreater(row.end_time, isoformat(now))

\* the dict built at lines 167-180
SessionFromRow(row, now) ==
    [lat |-> row.lat, lon |-> row.lon,
     location_name |-> row.location_name,
     email |-> row.email,
     start_time |-> fromisoformat(row.start_time),
     end_time |-> fromisoformat(row.end_time),
     baseline_weather |-> json_loads(row.baseline_weather),
     last_alert_time |->
        IF row.last_alert_time # Null THEN fromisoformat(row.last_alert_time) ELSE NoTime,
     alert_cooldown |-> alert_cooldown_default,
     notification_prefs |-> json_loads(row.notification_preferences),
     alert_count |-> 0,
     last_check |-> now]

LiveRows(table, now) == SelectSeq(table, LAMBDA r : RowIsLive(r, now))

\* _load_sessions_from_db: the heap after the loop over the selected rows
LoadedHeap(objs, table, now) ==
    LET rows == LiveRows(table, now)
    IN  objs \o [i \in 1..Len(rows) |-> SessionFromRow(rows[i], now)]

\* _load_sessions_from_db: the map after the loop over the selected rows
RECURSIVE LoadedSessions(_, _, _)
LoadedSessions(sessions, rows, first_ref) ==
    IF rows = <<>> THEN sessions
    ELSE LoadedSessions(DictSet(sessions, Head(rows).user_id, first_ref),
                        Tail(rows), first_ref + 1)

\* a cleanup that leaves the stored row alone
ExpireRowSkipped(table, user_id, now) == table

\* the UPDATE of _cleanup_expired_session, lines 481-487
ExpireRow(table, user_id, now) ==
    [i \in 1..Len(table) |->
        IF table[i].user_id = user_id /\ TextGreater(table[i].end_time, isoformat(now))
        THEN [table[i] EXCEPT !.end_time = isoformat(now)]
        ELSE table[i]]

\* get_user_status: the status field of the answer
get_user_status(sessions, user_id) ==
    IF DictGet(sessions, user_id) = NoRef THEN "not_monitored" ELSE "active"

-----------------------------------------------------------------------------
(* AlertGate *)

\* levels.get(x, 2)
Level(severity) ==
    CASE severity = "low" -> 1
      [] severity = "medium" -> 2
      [] severity = "high" -> 3
      [] OTHER -> 2

\* the comparison of line 341 with > in place of >=
should_send_alert_strict(sessions, objs, user_id, now) ==
    LET ref == DictGet(sessions, user_id)
    IN  IF ref = NoRef THEN FALSE
        ELSE IF objs[ref].last_alert_time = NoTime THEN TRUE
        ELSE now - objs[ref].last_alert_time > objs[ref].alert_cooldown

\* lines 327-341
_should_send_alert(sessions, objs, user_id, now) ==
    LET ref == DictGet(sessions, user_id)
    IN  IF ref = NoRef THEN FALSE
        ELSE IF objs[ref].last_alert_time = NoTime THEN TRUE
        ELSE now - objs[ref].last_alert_time >= objs[ref].alert_cooldown

\* the severity test against the default threshold whatever the session asks
PassesDefaultThreshold(w, prefs) ==
    Level(Get(w, "severity", "medium")) >= Level("medium")

\* the severity test of line 398
PassesThreshold(w, prefs) ==
    Level(Get(w, "severity", "medium")) >=
        Level(Get(prefs, "severity_threshold", "medium"))

\* a gate that hands the warnings back newest first
filter_warnings_reversed(sessions, objs, user_id, warnings, now) ==
    LET ref == DictGet(sessions, user_id)
        kept == IF ref = NoRef THEN <<>>
                ELSE SelectSeq(warnings, LAMBDA w :
                        /\ PassesThreshold(w, objs[ref].notification_prefs)
                        /\ _should_send_alert(sessions, objs, user_id, now))
    IN  [i \in 1..Len(kept) |-> kept[Len(kept) + 1 - i]]

\* a gate whose cooldown does not hold back a warning of severity high
filter_warnings_high_exempt(sessions, objs, user_id, warnings, now) ==
    LET ref == DictGet(sessions, user_id)
    IN  IF ref = NoRef THEN <<>>
        ELSE SelectSeq(warnings, LAMBDA w :
                /\ PassesThreshold(w, objs[ref].notification_prefs)
                /\ \/ _should_send_alert(sessions, objs, user_id, now)
                   \/ Get(w, "severity", "medium") = "high")

\* lines 381-401
_filter_warnings(sessions, objs, user_id, warnings, now) ==
    LET ref == DictGet(sessions, user_id)
    IN  IF ref = NoRef THEN <<>>
        ELSE SelectSeq(warnings, LAMBDA w :
                /\ PassesThreshold(w, objs[ref].notification_prefs)
                /\ _should_send_alert(sessions, objs, user_id, now))

\* one alert_history row per warning, lines 466-475
HistoryRows(user_id, warnings) ==
    [i \in 1..Len(warnings) |->
        [user_id |-> user_id, alert_type |-> warnings[i].type,
         message |-> warnings[i].message,
         severity |-> Get(warnings[i], "severity", "medium")]]

\* a save that keeps only the rows of the latest dispatch
save_alerts_replacing(table, user_id, warnings) == HistoryRows(user_id, warnings)

\* _save_alerts_to_history: the table after the INSERTs
_save_alerts_to_history(table, user_id, warnings) ==
    table \o HistoryRows(user_id, warnings)

\* get_alert_history: the newest `limit` rows of the user, newest first
get_alert_history(table, user_id, limit) ==
    LET rows == SelectSeq(table, LAMBDA r : r.user_id = user_id)
        n    == Len(rows)
    IN  [i \in 1..(IF limit < n THEN limit ELSE n) |->
            [type |-> rows[n + 1 - i].alert_type,
             message |-> rows[n + 1 - i].message,
             severity |-> rows[n + 1 - i].severity]]

-----------------------------------------------------------------------------
(* Inputs: what the collaborators return and what callers ask for *)

CurrentWeather(temp, cond) ==
    [main |-> [temp |-> temp], weather |-> <<[main |-> cond]>>]

\* nothing to report against a baseline of 10 degrees
Calm(now) ==
    [current |-> CurrentWeather(10, "Clear"), forecast |-> [list |-> <<>>],
     alerts |-> <<>>]

\* a windy thunderstorm in two hours: one medium and one high warning
Storm(now) ==
    [current |-> CurrentWeather(10, "Clear"),
     forecast |-> [list |-> <<[dt |-> 120, main |-> [temp |-> 10],
                               weather |-> <<[main |-> "Thunderstorm"]>>,
                               wind |-> [speed |-> 12]]>>],
     alerts |-> <<>>]

FetchResults(now) == {Calm(now), Storm(now)}

\* a quarter of an hour without preferences; reverse_geolocate finds a name
ReqDefault ==
    [lat |-> 40, lon |-> 0 - 74, duration |-> 15, email |-> "a@x.io",
     has_prefs |-> FALSE, notification_prefs |-> [severity_threshold |-> "medium"],
     geo |-> "New York"]

\* an hour with partial preferences; reverse_geolocate returns None
ReqHigh ==
    [lat |-> 48, lon |-> 2, duration |-> 60, email |-> NoEmail,
     has_prefs |-> TRUE,
     notification_prefs |-> [log_file |-> FALSE, severity_threshold |-> "high"],
     geo |-> ""]

\* a latitude off the globe
ReqInvalid ==
    [lat |-> 91, lon |-> 2, duration |-> 60, email |-> NoEmail,
     has_prefs |-> FALSE, notification_prefs |-> [severity_threshold |-> "medium"],
     geo |-> ""]

\* duration_hours below zero, which the endpoint passes through (line 565)
ReqNegative ==
    [lat |-> 40, lon |-> 0 - 74, duration |-> 0 - 15, email |-> NoEmail,
     has_prefs |-> FALSE, notification_prefs |-> [severity_threshold |-> "medium"],
     geo |-> "New York"]

\* every kind of body POST /start-agent lets through
AnyRequests == {ReqDefault, ReqHigh, ReqInvalid, ReqNegative}

\* what each user may ask for
Requests(user_id) == IF user_id = "u1" THEN {ReqDefault, ReqHigh} ELSE {ReqDefault}

-----------------------------------------------------------------------------
(* State after construction: weather_agent = WeatherAgent(), and main.py has
   created the thread that calls start_monitoring *)

NoEvent == [kind |-> "none"]
NoSession == [none |-> TRUE]

NewPoller ==
    [pc |-> "while", wake_at |-> 0, now |-> 0, snapshot |-> <<>>,
     user_id |-> "", sess |-> NoRef, to_remove |-> <<>>,
     warnings |-> <<>>, filt |-> <<>>,
     due |-> {}, expired |-> <<>>, live |-> {}]

Init ==
    /\ clock = 0
    /\ active_sessions = <<>>
    /\ heap = <<>>
    /\ user_sessions = <<>>
    /\ alert_history = <<>>
    /\ running = FALSE
    /\ poller = <<>>
    /\ caller = [auto |-> "check", http |-> "idle"]
    /\ registered = [u \in Users |-> NoSession]
    /\ last_event = NoEvent

-----------------------------------------------------------------------------
(* Session objects live as long as the map or a poller refers to them *)

Freed == [freed |-> TRUE]

Reachable(sessions, pollers) ==
    {sessions[j].ref : j \in 1..Len(sessions)}
        \cup {pollers[i].sess : i \in 1..Len(pollers)}
        \cup UNION {{pollers[i].snapshot[j].ref : j \in 1..Len(pollers[i].snapshot)} :
                        i \in 1..Len(pollers)}

Collect(objs, sessions, pollers) ==
    [r \in 1..Len(objs) |->
        IF r \in Reachable(sessions, pollers) THEN objs[r] ELSE Freed]

-----------------------------------------------------------------------------
(* Time passes while the pollers sleep or wait for a fetch *)

Tick ==
    /\ clock + TickStep <= MaxTime
    /\ \A i \in 1..Len(poller) : poller[i].pc \in {"while", "for", "exited"}
    /\ clock' = clock + TickStep
    /\ last_event' = NoEvent
    /\ UNCHANGED <<active_sessions, heap, user_sessions, alert_history,
                   running, poller, caller, registered>>

-----------------------------------------------------------------------------
(* Request handlers *)

\* what is observed of a session from its registration on: the length of
\* alert_history at that moment, and when the dispatcher last ran for it
Observed(rows, at) ==
    [history_mark |-> rows, dispatched_at |-> at, alerted_at |-> NoTime,
     removed |-> FALSE]

\* register_user_session, called by POST /start-agent; `fetched` is what
\* get_openweather_current does, `saved` whether the INSERT of
\* _save_session_to_db goes through or raises
Register(user_id, req, fetched, saved) ==
    /\ Len(heap) < MaxRefs
    /\ last_event' = [kind |-> "register", user_id |-> user_id, req |-> req,
                      fetched |-> fetched,
                      saved |-> fetched.raised \/ saved,
                      status |-> IF fetched.raised \/ ~saved
                                 THEN "error" ELSE "registered",
                      before |-> DictGet(active_sessions, user_id)]
    /\ UNCHANGED <<clock, alert_history, running, poller, caller>>
    /\ IF ~fetched.raised
       THEN LET found == reverse_geolocate(req.lat, req.lon, req.geo)
                location_name ==
                    IF found # NoName THEN found ELSE CoordString(req.lat, req.lon)
                sess == NewSession(req, location_name, fetched.body, clock)
            IN  /\ active_sessions' = DictSet(active_sessions, user_id, Len(heap) + 1)
                /\ user_sessions' = IF saved
                                     THEN _save_session_to_db(user_sessions, user_id, sess)
                                     ELSE user_sessions
                /\ heap' = Collect(Append(heap, sess), active_sessions', poller)
                /\ registered' = [registered EXCEPT ![user_id] =
                                    sess @@ Observed(Len(alert_history), NoTime)]
       ELSE UNCHANGED <<heap, active_sessions, user_sessions, registered>>

\* the baseline fetch returns the weather
BaselineFetches == {Returned(CurrentWeather(10, "Clear"))}

RegisterRequest ==
    \E user_id \in Users, fetched \in BaselineFetches :
        \E req \in Requests(user_id) : Register(user_id, req, fetched, TRUE)

\* the baseline fetch raises, returns the weather, or returns an error object
AnyFetches == BaselineFetches \cup {Raised, Returned(ErrorBody)}

\* POST /start-agent with any body and any answer of the weather service
RegisterAny ==
    \E user_id \in Users, req \in AnyRequests, fetched \in AnyFetches :
        Register(user_id, req, fetched, TRUE)

\* POST /start-agent against a database that takes the row or refuses it
RegisterStored ==
    \E user_id \in Users, fetched \in BaselineFetches, saved \in BOOLEAN :
        \E req \in Requests(user_id) : Register(user_id, req, fetched, saved)

\* a cleanup that leaves the map alone
CleanupSessionsKept(sessions, user_id) == sessions

\* _cleanup_expired_session: the map afterwards
CleanupSessions(sessions, user_id) ==
    IF DictHas(sessions, user_id) THEN DictDel(sessions, user_id) ELSE sessions

\* stop_agent_endpoint, POST /stop-agent
StopAgent(user_id) ==
    /\ last_event' = [kind |-> "stop", user_id |-> user_id,
                      status |-> IF DictHas(active_sessions, user_id)
                                 THEN "stopped" ELSE "not_found"]
    /\ UNCHANGED <<clock, alert_history, running, poller, caller>>
    /\ IF DictHas(active_sessions, user_id)
       THEN /\ active_sessions' = CleanupSessions(active_sessions, user_id)
            /\ user_sessions' = ExpireRow(user_sessions, user_id, clock)
            /\ heap' = Collect(heap, active_sessions', poller)
            /\ registered' = [registered EXCEPT ![user_id].removed = TRUE]
       ELSE UNCHANGED <<active_sessions, user_sessions, heap, registered>>

StopRequest == \E user_id \in Users : StopAgent(user_id)

\* POST /stop-agent for a user who has a session
StopActive ==
    \E user_id \in Users : DictHas(active_sessions, user_id) /\ StopAgent(user_id)

-----------------------------------------------------------------------------
(* MonitorScheduler: one thread i executing monitor_all_users.  A local
   variable that will not be read again is dropped. *)

Threads == 1..Len(poller)

\* the iteration for one session is over: back to the head of the for loop
NextSession(p) == [p EXCEPT !.pc = "for", !.warnings = <<>>, !.filt = <<>>,
                            !.user_id = "", !.sess = NoRef]

\* time.sleep(seconds), then back to line 348
Sleep(p, until) ==
    [NewPoller EXCEPT !.wake_at = until]

\* an except clause that ends the thread
BackoffExits(p, now) == [NewPoller EXCEPT !.pc = "exited"]

\* lines 377-379: the except clause of the loop body sleeps, then line 348
Backoff(p, now) == Sleep(p, now + backoff_sleep)

\* an expiry test that never fires
IsExpiredNever(now, session_data) == FALSE

\* line 355: now > sess["end_time"]
IsExpired(now, session_data) == now > session_data.end_time

\* line 348 and, when the flag is set, lines 350-353: a new cycle begins
WhileCheck(i) ==
    /\ poller[i].pc = "while"
    /\ clock >= poller[i].wake_at
    /\ poller' = [poller EXCEPT ![i] =
            IF running
            THEN [@ EXCEPT !.pc = "for", !.now = clock, !.to_remove = <<>>,
                           !.snapshot = active_sessions,
                           !.due = {active_sessions[j].ref : j \in
                                      {k \in 1..Len(active_sessions) :
                                         heap[active_sessions[k].ref].end_time <= clock}},
                           !.expired = <<>>,
                           !.live = {active_sessions[j].ref : j \in
                                      {k \in 1..Len(active_sessions) :
                                         heap[active_sessions[k].ref].end_time >= clock}}]
            ELSE [@ EXCEPT !.pc = "exited"]]
    /\ last_event' = NoEvent
    /\ UNCHANGED <<clock, active_sessions, heap, user_sessions, alert_history,
                   running, caller, registered>>

\* lines 355-357: the session at the head of the snapshot has expired
ForExpired(i) ==
    /\ poller[i].pc = "for"
    /\ poller[i].snapshot # <<>>
    /\ LET e == Head(poller[i].snapshot)
       IN  /\ IsExpired(poller[i].now, heap[e.ref])
           /\ poller' = [poller EXCEPT ![i] =
                    [@ EXCEPT !.snapshot = Tail(@), !.to_remove = Append(@, e.key),
                              !.expired = Append(@, e.ref)]]
           /\ last_event' = [kind |-> "expired", thread |-> i, user_id |-> e.key,
                             sess |-> e.ref, now |-> poller[i].now,
                             end_time |-> heap[e.ref].end_time]
    /\ heap' = Collect(heap, active_sessions, poller')
    /\ UNCHANGED <<clock, active_sessions, user_sessions, alert_history,
                   running, caller, registered>>

\* check_weather_changes without its try/except: a failing fetch raises
PollResultUnguarded(session_data, fetch_ok, fetched, now) ==
    [raised |-> ~fetch_ok,
     warnings |-> IF fetch_ok
                  THEN check_weather_changes(session_data, fetched.current,
                                             fetched.forecast, fetched.alerts, now)
                  ELSE <<>>]

\* check_weather_changes as line 360 sees it: the three fetches return
\* `fetched`, or one of them raises and the except clause returns []
PollResult(session_data, fetch_ok, fetched, now) ==
    [raised |-> FALSE,
     warnings |-> IF fetch_ok
                  THEN check_weather_changes(session_data, fetched.current,
                                             fetched.forecast, fetched.alerts, now)
                  ELSE <<>>]

\* lines 360-361, and 368 when there is nothing to send
Poll(i, fetch_ok, fetched) ==
    /\ poller[i].pc = "for"
    /\ poller[i].snapshot # <<>>
    /\ Len(alert_history) < MaxHistory
    /\ LET e == Head(poller[i].snapshot)
           r == PollResult(heap[e.ref], fetch_ok, fetched, clock)
           p == [poller[i] EXCEPT !.snapshot = Tail(@)]
       IN  /\ ~IsExpired(poller[i].now, heap[e.ref])
           /\ IF r.raised
              THEN /\ poller' = [poller EXCEPT ![i] = Backoff(p, clock)]
                   /\ heap' = Collect(heap, active_sessions, poller')
              ELSE IF r.warnings # <<>>
              THEN /\ poller' = [poller EXCEPT ![i] =
                            [p EXCEPT !.pc = "filter", !.user_id = e.key,
                                      !.sess = e.ref, !.warnings = r.warnings]]
                   /\ heap' = Collect(heap, active_sessions, poller')
              ELSE /\ poller' = [poller EXCEPT ![i] = NextSession(p)]
                   /\ heap' = Collect([heap EXCEPT ![e.ref].last_check = poller[i].now],
                                      active_sessions, poller')
           /\ last_event' = [kind |-> "poll", thread |-> i, user_id |-> e.key,
                             sess |-> e.ref, fetch_ok |-> fetch_ok,
                             warnings |-> r.warnings, now |-> poller[i].now,
                             end_time |-> heap[e.ref].end_time]
    /\ UNCHANGED <<clock, active_sessions, user_sessions, alert_history,
                   running, caller, registered>>

\* lines 362-363 (and 368 when the gate lets nothing through)
Filter(i) ==
    /\ poller[i].pc = "filter"
    /\ LET p == poller[i]
           filt == _filter_warnings(active_sessions, heap, p.user_id, p.warnings, clock)
           ref == DictGet(active_sessions, p.user_id)
       IN  /\ IF filt # <<>>
              THEN /\ poller' = [poller EXCEPT ![i] =
                            [@ EXCEPT !.pc = "send", !.filt = filt]]
                   /\ heap' = heap
              ELSE /\ poller' = [poller EXCEPT ![i] = NextSession(p)]
                   /\ heap' = Collect([heap EXCEPT ![p.sess].last_check = p.now],
                                      active_sessions, poller')
           /\ last_event' = [kind |-> "gate", thread |-> i,
                             user_id |-> p.user_id, sess |-> p.sess,
                             at |-> clock, ref |-> ref,
                             warnings |-> p.warnings, filt |-> filt]
    /\ UNCHANGED <<clock, active_sessions, user_sessions, alert_history,
                   running, caller, registered>>

\* _send_alerts: which channels the call reaches and what each one does, given
\* whether the file write, the two sends and the history insert go through
SendReport(session_data, ok) ==
    LET prefs     == session_data.notification_prefs
        log_on    == Get(prefs, "log_file", TRUE)
        email_on  == Get(prefs, "email", FALSE) /\ session_data.email # NoEmail
        push_on   == Get(prefs, "push", TRUE)
        log_raise == log_on /\ ~ok.log_file
    IN  [log_file |-> IF ~log_on THEN "disabled"
                      ELSE IF ok.log_file THEN "ok" ELSE "failed",
         email |-> IF log_raise THEN "not_reached"
                   ELSE IF ~email_on THEN "disabled"
                   ELSE IF ok.email THEN "ok" ELSE "failed",
         push |-> IF log_raise THEN "not_reached"
                  ELSE IF ~push_on THEN "disabled"
                  ELSE IF ok.push THEN "ok" ELSE "failed",
         history |-> IF log_raise THEN "not_reached"
                     ELSE IF ok.history THEN "written" ELSE "failed"]

\* _send_alerts returns normally
SendCompletes(report) == report.history = "written"

Outcomes == [log_file : BOOLEAN, email : BOOLEAN, push : BOOLEAN, history : BOOLEAN]

\* bookkeeping that also ends the session at the time of the alert
BookkeepingClosing(session_data, now, sent) ==
    [session_data EXCEPT !.last_alert_time = now, !.alert_count = @ + sent,
                         !.last_check = now, !.end_time = now]

\* lines 365-368: what the loop writes into the session after a dispatch
Bookkeeping(session_data, now, sent) ==
    [session_data EXCEPT !.last_alert_time = now, !.alert_count = @ + sent,
                         !.last_check = now]

\* lines 364-368; an exception leaving _send_alerts ends the cycle at line 377
Send(i, ok) ==
    /\ poller[i].pc = "send"
    /\ LET p == poller[i]
           report == SendReport(heap[p.sess], ok)
       IN  /\ last_event' = [kind |-> "dispatch", thread |-> i, user_id |-> p.user_id,
                             sess |-> p.sess, ref |-> DictGet(active_sessions, p.user_id),
                             warnings |-> p.filt, report |-> report,
                             rows_before |-> Len(alert_history), due |-> p.due,
                             at |-> clock, now |-> p.now, live |-> p.live,
                             prev_at |-> registered[p.user_id].dispatched_at,
                             prefs |-> heap[p.sess].notification_prefs,
                             email |-> heap[p.sess].email]
           /\ registered' =
                 IF SendCompletes(report) /\ DictGet(active_sessions, p.user_id) = p.sess
                 THEN [registered EXCEPT ![p.user_id].dispatched_at = clock,
                                         ![p.user_id].alerted_at = p.now]
                 ELSE registered
           /\ IF SendCompletes(report)
              THEN /\ alert_history' = _save_alerts_to_history(alert_history, p.user_id, p.filt)
                   /\ poller' = [poller EXCEPT ![i] = NextSession(p)]
                   /\ heap' = Collect([heap EXCEPT ![p.sess] =
                                        Bookkeeping(@, p.now, Len(p.filt))],
                                      active_sessions, poller')
              ELSE /\ UNCHANGED alert_history
                   /\ poller' = [poller EXCEPT ![i] = Backoff(p, clock)]
                   /\ heap' = Collect(heap, active_sessions, poller')
    /\ UNCHANGED <<clock, active_sessions, user_sessions, running, caller>>

\* _cleanup_expired_session for every user of to_remove, in order
RECURSIVE CleanupAll(_, _)
CleanupAll(sessions, to_remove) ==
    IF to_remove = <<>> THEN sessions
    ELSE CleanupAll(CleanupSessions(sessions, Head(to_remove)), Tail(to_remove))

RECURSIVE ExpireAll(_, _, _)
ExpireAll(table, to_remove, now) ==
    IF to_remove = <<>> THEN table
    ELSE ExpireAll(ExpireRow(table, Head(to_remove), now), Tail(to_remove), now)

\* lines 371-375: the for loop is over; clean up, then sleep
Cleanup(i) ==
    /\ poller[i].pc = "for"
    /\ poller[i].snapshot = <<>>
    /\ active_sessions' = CleanupAll(active_sessions, poller[i].to_remove)
    /\ user_sessions' = ExpireAll(user_sessions, poller[i].to_remove, clock)
    /\ poller' = [poller EXCEPT ![i] = Sleep(poller[i], clock + check_interval)]
    /\ heap' = Collect(heap, active_sessions', poller')
    /\ last_event' = [kind |-> "cleanup", thread |-> i,
                      to_remove |-> poller[i].to_remove,
                      expired |-> poller[i].expired, due |-> poller[i].due,
                      now |-> poller[i].now, live |-> poller[i].live]
    /\ registered' = [u \in Users |->
            IF DictHas(active_sessions, u) /\ ~DictHas(active_sessions', u)
            THEN [registered[u] EXCEPT !.removed = TRUE] ELSE registered[u]]
    /\ UNCHANGED <<clock, alert_history, running, caller>>

PollerStep ==
    \E i \in Threads :
        \/ WhileCheck(i)
        \/ ForExpired(i)
        \/ \E fetch_ok \in BOOLEAN, fetched \in FetchResults(clock) :
                Poll(i, fetch_ok, fetched)
        \/ Filter(i)
        \/ \E ok \in Outcomes : Send(i, ok)
        \/ Cleanup(i)

\* the steps a loop takes while the weather stays calm
QuietStep ==
    \E i \in Threads :
        \/ WhileCheck(i)
        \/ ForExpired(i)
        \/ Poll(i, TRUE, Calm(clock))
        \/ Cleanup(i)

\* the steps a loop takes while no session is registered
IdleStep ==
    \E i \in Threads :
        \/ WhileCheck(i)
        \/ Cleanup(i)

-----------------------------------------------------------------------------
(* Service switch: start_monitoring and stop_monitoring.  Caller "auto" is the
   thread main.py starts on monitor_all_sessions_loop, caller "http" is a
   request to /service/start. *)

Finished(c) == IF c = "auto" THEN "done" ELSE "idle"

\* line 494: the caller tests the flag
StartCheck(c) ==
    /\ caller[c] = "check"
    /\ caller' = [caller EXCEPT ![c] = IF running THEN Finished(c) ELSE "load"]
    /\ last_event' = NoEvent
    /\ UNCHANGED <<clock, active_sessions, heap, user_sessions, alert_history,
                   running, poller, registered>>

\* lines 495-498: reload, set the flag, start a thread on monitor_all_users
StartLoad(c) ==
    /\ caller[c] = "load"
    /\ Len(poller) < MaxPollers
    /\ active_sessions' = LoadedSessions(active_sessions,
                                         LiveRows(user_sessions, clock), Len(heap) + 1)
    /\ running' = TRUE
    /\ poller' = Append(poller, NewPoller)
    /\ heap' = Collect(LoadedHeap(heap, user_sessions, clock), active_sessions', poller')
    /\ caller' = [caller EXCEPT ![c] = Finished(c)]
    /\ last_event' = [kind |-> "reload", before |-> active_sessions]
    /\ UNCHANGED <<clock, user_sessions, alert_history, registered>>

\* start_service_endpoint, line 612: the endpoint tests the flag itself first
ServiceStart ==
    /\ caller["http"] = "idle"
    /\ caller' = [caller EXCEPT !["http"] = IF running THEN "idle" ELSE "check"]
    /\ last_event' = NoEvent
    /\ UNCHANGED <<clock, active_sessions, heap, user_sessions, alert_history,
                   running, poller, registered>>

\* stop_service_endpoint and stop_monitoring
ServiceStop ==
    /\ running' = FALSE
    /\ last_event' = NoEvent
    /\ UNCHANGED <<clock, active_sessions, heap, user_sessions, alert_history,
                   poller, caller, registered>>

\* the process ends and starts again: memory is lost, the database file stays
Restart ==
    /\ active_sessions' = <<>>
    /\ heap' = <<>>
    /\ running' = FALSE
    /\ poller' = <<>>
    /\ caller' = [auto |-> "check", http |-> "idle"]
    /\ last_event' = NoEvent
    /\ UNCHANGED <<clock, user_sessions, alert_history, registered>>

-----------------------------------------------------------------------------
(* Specifications *)

\* one process life: requests against one polling thread
Next ==
    \/ Tick
    \/ RegisterRequest
    \/ StopActive
    \/ PollerStep
    \/ StartCheck("auto")
    \/ StartLoad("auto")

Spec == Init /\ [][Next]_vars

\* registrations and polling across process restarts
NextRestart ==
    \/ Tick
    \/ RegisterRequest
    \/ PollerStep
    \/ StartCheck("auto")
    \/ StartLoad("auto")
    \/ Restart

SpecRestart == Init /\ [][NextRestart]_vars

\* the service switch on its own: no user registers
NextService ==
    \/ Tick
    \/ IdleStep
    \/ StartCheck("auto")
    \/ StartLoad("auto")
    \/ ServiceStart
    \/ StartCheck("http")
    \/ StartLoad("http")
    \/ ServiceStop

SpecService == Init /\ [][NextService]_vars

\* the registry on its own: requests of every kind, no polling
NextRegistry ==
    \/ Tick
    \/ RegisterAny
    \/ StopRequest

SpecRegistry == Init /\ [][NextRegistry]_vars

\* sessions that come and go, in calm weather, across process restarts
NextLifecycle ==
    \/ Tick
    \/ RegisterRequest
    \/ StopActive
    \/ QuietStep
    \/ StartCheck("auto")
    \/ StartLoad("auto")
    \/ Restart

SpecLifecycle == Init /\ [][NextLifecycle]_vars

\* one process life in which the service is switched off and not on again
NextCancel ==
    \/ Tick
    \/ RegisterRequest
    \/ PollerStep
    \/ StartCheck("auto")
    \/ StartLoad("auto")
    \/ ServiceStop

SpecCancel == Init /\ [][NextCancel]_vars

\* the registry against a database whose writes at registration can fail
NextStore ==
    \/ Tick
    \/ RegisterStored
    \/ StopRequest

SpecStore == Init /\ [][NextStore]_vars

-----------------------------------------------------------------------------
(* The detector on its own: check_weather_changes applied to what the three
   fetches can return *)

\* forecast entries without their time: nothing to report; warmer, wet, windy
\* and thundery; snow
QuietEntry == [main |-> [temp |-> 10], weather |-> <<[main |-> "Clear"]>>]

SquallEntry ==
    [main |-> [temp |-> 16], weather |-> <<[main |-> "Thunderstorm"]>>,
     rain |-> [x \in {"1h"} |-> 8], wind |-> [speed |-> 12]]

SnowEntry == [main |-> [temp |-> 10], weather |-> <<[main |-> "Snow"]>>]

EntryKinds == {QuietEntry, SquallEntry, SnowEntry}

\* three hours between two forecast entries
ForecastStep == 180

\* a forecast of the given entries, the first `past` of them at or before now
ForecastOf(entries, past, now) ==
    [list |-> [i \in 1..Len(entries) |->
                 [k \in DOMAIN entries[i] \cup {"dt"} |->
                     IF k = "dt" THEN now + (i - past) * ForecastStep
                     ELSE entries[i][k]]]]

Forecasts(now) ==
    {ForecastOf(entries, past, now) :
        entries \in UNION {[1..n -> EntryKinds] : n \in 0..MaxForecast},
        past \in 0..MaxPast}

Currents ==
    {CurrentWeather(t, "Clear") : t \in {5, 6, 10, 15, 16}}
        \cup {CurrentWeather(10, "Thunderstorm")}

Baselines == {CurrentWeather(10, "Clear"), ErrorBody}

\* entries of the official-alerts answer: one with a description longer than
\* desc_limit, one without event and description
FloodAlert == [event |-> "Flood Warning", desc |-> [i \in 1..(desc_limit + 1) |-> "x"]]

BareAlert == [headline |-> "Heat"]

Alerts == UNION {[1..n -> {FloodAlert, BareAlert}] : n \in 0..MaxAlerts}

\* the answers of the three fetches and the baseline of the session polled
InitDetector ==
    /\ clock = 0
    /\ active_sessions = <<>>
    /\ heap = <<>>
    /\ user_sessions = <<>>
    /\ alert_history = <<>>
    /\ running = FALSE
    /\ poller = <<>>
    /\ caller = [auto |-> "check", http |-> "idle"]
    /\ registered = [u \in Users |-> NoSession]
    /\ last_event \in
          [kind : {"fetched"}, baseline : Baselines, current : Currents,
           forecast : Forecasts(0), alerts : Alerts, now : {0}]

\* check_weather_changes, lines 195-216, on those answers
Detect ==
    /\ last_event.kind = "fetched"
    /\ last_event' =
          [kind |-> "detected", baseline |-> last_event.baseline,
           current |-> last_event.current, forecast |-> last_event.forecast,
           alerts |-> last_event.alerts, now |-> last_event.now,
           warnings |-> check_weather_changes(
                            [baseline_weather |-> last_event.baseline],
                            last_event.current, last_event.forecast,
                            last_event.alerts, last_event.now)]
    /\ UNCHANGED <<clock, active_sessions, heap, user_sessions, alert_history,
                   running, poller, caller, registered>>

NextDetector == Detect

SpecDetector == InitDetector /\ [][NextDetector]_vars

-----------------------------------------------------------------------------
(* Properties of the alert gate *)

\* the warnings of a gate event that rank at or above the threshold of the
\* polled session
Qualifying(ev, objs) ==
    SelectSeq(ev.warnings,
              LAMBDA w : PassesThreshold(w, objs[ev.sess].notification_prefs))

\* a gate event on a session that is still the registered one
GateOnCurrent(ev) == ev.kind = "gate" /\ ev.ref = ev.sess

\* the gate event falls inside the cooldown of the polled session
InCooldown(ev, objs) ==
    /\ objs[ev.sess].last_alert_time # NoTime
    /\ ev.at - objs[ev.sess].last_alert_time < objs[ev.sess].alert_cooldown

\* C1: with one polling thread, no restart and no re-registration, a poll with
\* qualifying warnings less than alert_cooldown (30 minutes) after the
\* session's last_alert_time passes nothing to the dispatcher and leaves
\* alert_history, alert_count and last_alert_time as they were; a poll with no
\* last_alert_time, or 30 minutes or more after it, hands exactly the
\* qualifying warnings to the dispatcher; and the dispatcher runs only on what
\* the gate handed over.
CooldownGate ==
    [][ /\ GateOnCurrent(last_event') =>
            LET ev == last_event'
                q  == Qualifying(ev, heap)
                p  == poller'[ev.thread]
            IN  q # <<>> =>
                  /\ alert_history' = alert_history
                  /\ heap'[ev.sess].alert_count = heap[ev.sess].alert_count
                  /\ heap'[ev.sess].last_alert_time = heap[ev.sess].last_alert_time
                  /\ IF InCooldown(ev, heap)
                     THEN ev.filt = <<>> /\ p.pc = "for"
                     ELSE ev.filt = q /\ p.pc = "send" /\ p.filt = q
        /\ last_event'.kind = "dispatch" =>
            /\ poller[last_event'.thread].pc = "send"
            /\ last_event'.warnings = poller[last_event'.thread].filt
        /\ alert_history' # alert_history => last_event'.kind = "dispatch"
      ]_vars

\* C1 witness: a session that alerted earlier is polled again inside its
\* cooldown with a qualifying warning, and the gate has suppressed it
CooldownGateWitness ==
    /\ GateOnCurrent(last_event)
    /\ Qualifying(last_event, heap) # <<>>
    /\ InCooldown(last_event, heap)
    /\ last_event.filt = <<>>
    /\ heap[last_event.sess].alert_count > 0

\* C2: what the gate lets through, and so what the dispatcher sends and
\* records, holds only warnings whose rank (low < medium < high) is at least
\* the threshold rank of the session registered at the time of the gate; for a
\* threshold of high nothing of severity medium or low is dispatched.
SeverityThreshold ==
    [][ /\ last_event'.kind = "gate" =>
            \A k \in 1..Len(last_event'.filt) :
                LET w     == last_event'.filt[k]
                    prefs == heap[last_event'.ref].notification_prefs
                IN  /\ last_event'.ref # NoRef
                    /\ Level(Get(w, "severity", "medium")) >=
                           Level(Get(prefs, "severity_threshold", "medium"))
                    /\ Get(prefs, "severity_threshold", "medium") = "high"
                           => w.severity = "high"
        /\ last_event'.kind = "dispatch" =>
            /\ last_event'.warnings = poller[last_event'.thread].filt
            /\ alert_history' \in
                 {alert_history,
                  alert_history \o HistoryRows(last_event'.user_id, last_event'.warnings)}
      ]_vars

\* C2 witness: the detector produced a medium and a high warning for a session
\* with threshold high, and the gate handed only the high one to the dispatcher
SeverityThresholdWitness ==
    /\ GateOnCurrent(last_event)
    /\ heap[last_event.sess].notification_prefs.severity_threshold = "high"
    /\ \E k \in 1..Len(last_event.warnings) : last_event.warnings[k].severity = "medium"
    /\ Len(last_event.filt) = 1
    /\ last_event.filt[1].severity = "high"
    /\ poller[last_event.thread].pc = "send"

-----------------------------------------------------------------------------
(* Properties of expiry, reload and the service switch *)

\* the step that ends a cycle: the cleanup after the for loop, or an exception
\* that leaves _send_alerts and is caught at line 377
CycleEnd(ev) ==
    \/ ev.kind = "cleanup"
    \/ ev.kind = "dispatch" /\ ~SendCompletes(ev.report)

\* C3: every session that is in the active set with end_time <= now when a
\* cycle starts is out of the active set when that cycle is over: the status of
\* its user is not_monitored, unless the user holds a session registered since.
\* The boundary end_time = now and cycles in which another session's
\* processing fails are included.
ExpiryRemoval ==
    CycleEnd(last_event) =>
        \A u \in Users :
            get_user_status(active_sessions, u) = "not_monitored"
                \/ DictGet(active_sessions, u) \notin last_event.due

\* C4: a reload into an empty in-memory map makes the active set exactly the
\* users whose stored end_time is later than now, each session with the
\* location_name, baseline_weather, notification_prefs, coordinates and
\* end_time of its registration, and writes nothing to user_sessions.
RestartRecovery ==
    [][ (last_event'.kind = "reload" /\ last_event'.before = <<>>) =>
          /\ user_sessions' = user_sessions
          /\ \A u \in Users :
                LET rows == SelectSeq(user_sessions, LAMBDA r : r.user_id = u)
                    live == rows # <<>> /\ fromisoformat(rows[1].end_time) > clock
                    ref  == DictGet(active_sessions', u)
                IN  /\ (ref # NoRef) = live
                    /\ live =>
                         /\ heap'[ref].location_name = registered[u].location_name
                         /\ heap'[ref].baseline_weather = registered[u].baseline_weather
                         /\ heap'[ref].notification_prefs = registered[u].notification_prefs
                         /\ heap'[ref].lat = registered[u].lat
                         /\ heap'[ref].lon = registered[u].lon
                         /\ heap'[ref].end_time = registered[u].end_time
      ]_vars

\* C4 witness: after a restart the reload has brought back one registered
\* session and left out one whose stored end_time is not later than now
RestartRecoveryWitness ==
    /\ last_event.kind = "reload"
    /\ last_event.before = <<>>
    /\ Len(active_sessions) = 1
    /\ Len(user_sessions) = 2
    /\ \E j \in 1..Len(user_sessions) :
          fromisoformat(user_sessions[j].end_time) <= clock
    /\ heap[active_sessions[1].ref].location_name =
          registered[active_sessions[1].key].location_name

\* a thread that is inside an iteration of the loop, or about to enter one
Live(i) == poller[i].pc \notin {"while", "exited"} \/ (poller[i].pc = "while" /\ running)

\* C5: whatever the order of start_monitoring and stop_monitoring calls, at
\* most one thread is executing the polling loop.
SinglePoller == Cardinality({i \in Threads : Live(i)}) <= 1

\* C6: the cleanup at the end of a cycle removes a user's session, and rewrites
\* its stored end_time, only if the session in the active set at that moment is
\* the one the cycle found expired.
AtomicExpiry ==
    [][ last_event'.kind = "cleanup" =>
          \A k \in 1..Len(last_event'.to_remove) :
              LET u == last_event'.to_remove[k]
              IN  /\ DictGet(active_sessions, u) \in {last_event'.expired[k], NoRef}
                  /\ DictGet(active_sessions, u) # last_event'.expired[k] =>
                        /\ DictGet(active_sessions', u) = DictGet(active_sessions, u)
                        /\ user_sessions' = user_sessions
      ]_vars

-----------------------------------------------------------------------------
(* Properties of a poll under concurrent requests and failing collaborators *)

\* C7: a poll of a user that overlaps a registration of the same user works on
\* one session version: the session the gate consults, and the one registered
\* when the dispatch is booked, is the session object that was polled.
RegisterPollConsistency ==
    last_event.kind \in {"gate", "dispatch"} =>
        last_event.ref \in {last_event.sess, NoRef}

\* C8: when a fetch fails for one session, the session stays in the active
\* set, nothing is dispatched or recorded for it, and the cycle goes on with
\* the sessions that remain in its snapshot.
FetchFailureIsolation ==
    [][ (last_event'.kind = "poll" /\ ~last_event'.fetch_ok) =>
            LET i == last_event'.thread
            IN  /\ active_sessions' = active_sessions
                /\ user_sessions' = user_sessions
                /\ alert_history' = alert_history
                /\ last_event'.warnings = <<>>
                /\ poller'[i].pc = "for"
                /\ poller'[i].snapshot = Tail(poller[i].snapshot)
                /\ poller'[i].to_remove = poller[i].to_remove
      ]_vars

\* C8 witness: the fetch failed for the first of two sessions of a cycle; the
\* first is still active and the second is next to be polled
FetchFailureIsolationWitness ==
    /\ last_event.kind = "poll"
    /\ ~last_event.fetch_ok
    /\ DictGet(active_sessions, last_event.user_id) = last_event.sess
    /\ poller[last_event.thread].pc = "for"
    /\ Len(poller[last_event.thread].snapshot) = 1
    /\ Head(poller[last_event.thread].snapshot).key # last_event.user_id

\* C9: in a dispatch, a channel that fails does not keep the other enabled
\* channels from being attempted.
ChannelIsolation ==
    last_event.kind = "dispatch" =>
        /\ last_event.report.email # "not_reached"
        /\ last_event.report.push # "not_reached"

\* C10: a dispatch of k warnings appends k rows to alert_history for that
\* user, one per warning, whatever the log_file, email and push channels do.
HistoryRecordsIntent ==
    (last_event.kind = "dispatch" /\ last_event.report.history # "failed") =>
        /\ Len(alert_history) = last_event.rows_before + Len(last_event.warnings)
        /\ SubSeq(alert_history, last_event.rows_before + 1, Len(alert_history)) =
              HistoryRows(last_event.user_id, last_event.warnings)

-----------------------------------------------------------------------------
(* Properties of registration and stop *)

\* a registration step left the active set, its sessions and the stored
\* sessions as they were
RegistryUntouched ==
    /\ active_sessions' = active_sessions
    /\ user_sessions' = user_sessions
    /\ \A j \in 1..Len(active_sessions) :
          heap'[active_sessions[j].ref] = heap[active_sessions[j].ref]

\* C11: a registration with latitude outside [-90, 90] or longitude outside
\* [-180, 180] answers with an error, adds no session to the active set, writes
\* no row to user_sessions and leaves an existing session of the user as it is.
InvalidCoordinatesRejected ==
    [][ (/\ last_event'.kind = "register"
         /\ ~is_valid_coordinates(last_event'.req.lat, last_event'.req.lon)) =>
            /\ last_event'.status = "error"
            /\ RegistryUntouched
      ]_vars

\* the baseline fetch did not deliver the current weather
FetchFailed(fetched) == fetched.raised \/ fetched.body = ErrorBody

\* C12: when the current-weather fetch of a registration fails, the answer is
\* an error, no session of the user is added to the active set or to
\* user_sessions, and a session the user already had is left as it was.
BaselineRequired ==
    [][ (last_event'.kind = "register" /\ FetchFailed(last_event'.fetched)) =>
            /\ last_event'.status = "error"
            /\ RegistryUntouched
      ]_vars

RowsOf(table, user_id) == SelectSeq(table, LAMBDA r : r.user_id = user_id)

\* C14: after a successful registration of a user who already has a session,
\* the active set and user_sessions each hold one session of the user, with
\* the coordinates, baseline, start_time, end_time and notification_prefs of
\* the new call, alert_count 0 and no last_alert_time.
LastWriteWins ==
    (/\ last_event.kind = "register"
     /\ last_event.status = "registered"
     /\ last_event.before # NoRef) =>
        LET u    == last_event.user_id
            req  == last_event.req
            sess == heap[DictGet(active_sessions, u)]
            rows == RowsOf(user_sessions, u)
        IN  /\ Len(SelectSeq(active_sessions, LAMBDA e : e.key = u)) = 1
            /\ DictGet(active_sessions, u) # last_event.before
            /\ sess.lat = req.lat /\ sess.lon = req.lon
            /\ sess.baseline_weather = last_event.fetched.body
            /\ sess.start_time = clock
            /\ sess.end_time = clock + req.duration
            /\ sess.notification_prefs =
                  IF req.has_prefs THEN req.notification_prefs
                  ELSE DefaultPrefs(req.email)
            /\ sess.alert_count = 0
            /\ sess.last_alert_time = NoTime
            /\ Len(rows) = 1
            /\ rows[1].lat = req.lat /\ rows[1].lon = req.lon
            /\ json_loads(rows[1].baseline_weather) = sess.baseline_weather
            /\ fromisoformat(rows[1].start_time) = sess.start_time
            /\ fromisoformat(rows[1].end_time) = sess.end_time
            /\ json_loads(rows[1].notification_preferences) = sess.notification_prefs
            /\ rows[1].last_alert_time = Null

\* C14 witness: a user whose session had already alerted has registered again
\* with another request, and the new session starts from nothing
LastWriteWinsWitness ==
    /\ last_event.kind = "register"
    /\ last_event.status = "registered"
    /\ last_event.before # NoRef
    /\ last_event.req = ReqDefault
    /\ \E k \in 1..Len(alert_history) : alert_history[k].user_id = last_event.user_id
    /\ heap[DictGet(active_sessions, last_event.user_id)].alert_count = 0
    /\ Len(RowsOf(user_sessions, last_event.user_id)) = 1

\* C15: stop for an active user removes the user from the active set at once,
\* whatever the end_time, and answers stopped, after which the status is
\* not_monitored; stop for a user who is not active answers not_found and
\* changes neither the active set nor user_sessions; a second stop changes
\* nothing more.
StopIdempotent ==
    [][ last_event'.kind = "stop" =>
            LET u == last_event'.user_id
            IN  /\ last_event'.status =
                      IF DictHas(active_sessions, u) THEN "stopped" ELSE "not_found"
                /\ get_user_status(active_sessions', u) = "not_monitored"
                /\ \A v \in Users \ {u} :
                      DictGet(active_sessions', v) = DictGet(active_sessions, v)
                /\ last_event'.status = "not_found" =>
                      /\ active_sessions' = active_sessions
                      /\ user_sessions' = user_sessions
                /\ CleanupSessions(active_sessions', u) = active_sessions'
                /\ ExpireRow(user_sessions', u, clock) = user_sessions'
      ]_vars

\* C15 witness: a user whose session still had time to run was stopped and is
\* no longer monitored
StopIdempotentWitness ==
    /\ last_event.kind = "stop"
    /\ last_event.status = "stopped"
    /\ registered[last_event.user_id].end_time > clock
    /\ get_user_status(active_sessions, last_event.user_id) = "not_monitored"
    /\ \E j \in 1..Len(user_sessions) :
          /\ user_sessions[j].user_id = last_event.user_id
          /\ fromisoformat(user_sessions[j].end_time) = clock

-----------------------------------------------------------------------------
(* Properties of the bookkeeping and of the dispatcher *)

\* the number of alert_history rows of a user appended after position `mark`
RowsSince(user_id, mark) ==
    Cardinality({k \in (mark + 1)..Len(alert_history) :
                    alert_history[k].user_id = user_id})

\* C16: for every active session, alert_count is the number of alert_history
\* rows appended for its user since the session was registered; a dispatch of
\* k warnings raises it by k and nothing else changes it, a stop and start of
\* the service with its reload included.
AlertCountIsRunningCount ==
    \A u \in Users :
        DictGet(active_sessions, u) # NoRef =>
            heap[DictGet(active_sessions, u)].alert_count =
                RowsSince(u, registered[u].history_mark)

\* C17: without re-registration, two dispatches for a session lie at least
\* alert_cooldown apart, measured when the dispatcher is invoked.
MinimumDispatchGap ==
    (/\ last_event.kind = "dispatch"
     /\ SendCompletes(last_event.report)
     /\ last_event.ref = last_event.sess
     /\ last_event.prev_at # NoTime) =>
        last_event.at - last_event.prev_at >= heap[last_event.sess].alert_cooldown

\* C18: no step removes or alters a row of alert_history: the table only grows
\* at its end, and so does what get_alert_history returns for each user with a
\* limit that covers all rows.
HistoryAppendOnly ==
    [][ /\ Len(alert_history') >= Len(alert_history)
        /\ SubSeq(alert_history', 1, Len(alert_history)) = alert_history
        /\ \A u \in Users :
              LET old == get_alert_history(alert_history, u, MaxHistory + 2)
                  new == get_alert_history(alert_history', u, MaxHistory + 2)
              IN  /\ Len(new) >= Len(old)
                  /\ SubSeq(new, Len(new) - Len(old) + 1, Len(new)) = old
      ]_vars

\* C18 witness: a user with a row in alert_history has been stopped, and the
\* history still returns the row
HistoryAppendOnlyWitness ==
    /\ last_event.kind = "stop"
    /\ last_event.status = "stopped"
    /\ get_user_status(active_sessions, last_event.user_id) = "not_monitored"
    /\ Len(get_alert_history(alert_history, last_event.user_id, MaxHistory + 2)) = 2
    /\ Len(alert_history) = 2

\* C19: every session that register puts in the active set or writes to
\* user_sessions has end_time > start_time, whatever duration the caller
\* passed.
SessionTimeInvariant ==
    /\ \A j \in 1..Len(active_sessions) :
          heap[active_sessions[j].ref].end_time > heap[active_sessions[j].ref].start_time
    /\ (last_event.kind = "register" /\ last_event.status = "registered") =>
          \A j \in 1..Len(user_sessions) :
              user_sessions[j].user_id = last_event.user_id =>
                  fromisoformat(user_sessions[j].end_time) >
                      fromisoformat(user_sessions[j].start_time)

\* the dict has the key and its value is true
IsTrue(prefs, key) == key \in DOMAIN prefs /\ prefs[key] = TRUE

\* C20: a dispatch attempts the email channel only if notification_prefs.email
\* is true and the session has an address, and the push channel only if
\* notification_prefs.push is true, also when the preferences omit a key.
ChannelGating ==
    last_event.kind = "dispatch" =>
        /\ last_event.report.email \in {"ok", "failed"} =>
              IsTrue(last_event.prefs, "email") /\ last_event.email # NoEmail
        /\ last_event.report.push \in {"ok", "failed"} =>
              IsTrue(last_event.prefs, "push")

\* C21: a user whose session was removed, by a stop request or by the cleanup
\* of a polling cycle, is not in the active set again until register is called
\* for that user; the reload of a restarted process does not bring it back.
NoResurrection ==
    \A u \in Users :
        (registered[u] # NoSession /\ registered[u].removed) =>
            ~DictHas(active_sessions, u)

\* a reload has run while a user removed before the requested end of the
\* session stays out of the active set
NoResurrectionWitness ==
    /\ last_event.kind = "reload"
    /\ \E u \in Users :
          /\ registered[u] # NoSession
          /\ registered[u].removed
          /\ registered[u].end_time > clock
          /\ ~DictHas(active_sessions, u)

\* C22: stop_monitoring only clears the flag.  A loop leaves only at the test
\* of line 348 and only when the flag is clear, never starts a cycle when the
\* flag is clear, never runs again after it left, and a cycle that is under
\* way when the flag is cleared runs on to its cleanup.
CooperativeCancellation ==
    [][\A i \in 1..Len(poller) :
          /\ (poller[i].pc # "exited" /\ poller'[i].pc = "exited") =>
                 poller[i].pc = "while" /\ ~running
          /\ poller[i].pc = "exited" => poller'[i] = poller[i]
          /\ (poller[i].pc = "while" /\ poller'[i].pc = "for") => running
          /\ (running /\ ~running') => poller' = poller
          /\ (~running /\ poller[i].pc \in {"for", "filter", "send"}
                 /\ poller'[i].pc = "while") =>
                 (last_event'.kind = "cleanup" /\ poller[i].snapshot = <<>>)]_vars

\* C23: an exception that leaves the body of a cycle is caught by the except
\* clause of the loop: the thread sleeps backoff_sleep and is back at the loop
\* test, where a set flag starts the next cycle; while the flag is set no loop
\* has exited.
LoopSurvivesFailure ==
    /\ \A i \in 1..Len(poller) : running => poller[i].pc # "exited"
    /\ (last_event.kind = "dispatch" /\ ~SendCompletes(last_event.report)) =>
          /\ poller[last_event.thread].pc = "while"
          /\ poller[last_event.thread].wake_at = last_event.at + backoff_sleep
    /\ \A i \in 1..Len(poller) :
          (poller[i].pc = "while" /\ running /\ clock >= poller[i].wake_at) =>
              ENABLED WhileCheck(i)

\* a cycle is under way that began when a backoff sleep was over
LoopSurvivesFailureWitness ==
    \E i \in 1..Len(poller) :
        /\ running
        /\ poller[i].pc = "for"
        /\ poller[i].wake_at % check_interval = backoff_sleep
        /\ poller[i].now >= poller[i].wake_at

\* C24: the time of a session's last dispatch survives a restart: a poll of a
\* session, reloaded or not, that comes less than alert_cooldown after the
\* last_alert_time of its last dispatch sends nothing.
CooldownSurvivesRestart ==
    (/\ GateOnCurrent(last_event)
     /\ registered[last_event.user_id].alerted_at # NoTime
     /\ last_event.at - registered[last_event.user_id].alerted_at <
            heap[last_event.ref].alert_cooldown) =>
        last_event.filt = <<>>

\* C25: a dispatch (channel sends and alert_history records) for a user happens
\* only while the user is in the active set: after stop answered "stopped"
\* nothing is sent for the user until the next registration, also when a cycle
\* was already polling the session.
NoAlertAfterStop ==
    last_event.kind = "dispatch" =>
        /\ ~registered[last_event.user_id].removed
        /\ last_event.ref # NoRef

\* C26: a session whose end_time lies before the `now` of the cycle is only
\* marked for removal: the step fetches nothing, leaves the session object, the
\* active set and both tables as they are, and a poll (fetch and detection,
\* then gate, dispatch and bookkeeping) is made only of a session that has not
\* expired at the cycle's `now`.
ExpiredNotProcessed ==
    [][/\ last_event'.kind = "poll" => last_event'.now <= last_event'.end_time
       /\ last_event'.kind = "expired" =>
            /\ last_event'.now > last_event'.end_time
            /\ alert_history' = alert_history
            /\ user_sessions' = user_sessions
            /\ active_sessions' = active_sessions
            /\ heap'[last_event'.sess] \in {heap[last_event'.sess], Freed}
            /\ poller'[last_event'.thread].pc = "for"
            /\ poller'[last_event'.thread].to_remove =
                  Append(poller[last_event'.thread].to_remove, last_event'.user_id)]_vars

\* an expired session has just been marked while another session of the same
\* snapshot is still to be polled
ExpiredNotProcessedWitness ==
    /\ last_event.kind = "expired"
    /\ poller[last_event.thread].snapshot # <<>>
    /\ poller[last_event.thread].to_remove = <<last_event.user_id>>

\* C27: when a cycle ends, by its cleanup or by an exception, every session of
\* its snapshot that had not expired at the cycle's `now` has last_check equal
\* to that `now`.
LastCheckAdvances ==
    CycleEnd(last_event) =>
        \A r \in last_event.live :
            heap[r] # Freed => heap[r].last_check = last_event.now

\* s is t with some entries left out, the others in the same order
RECURSIVE IsSubSeq(_, _)
IsSubSeq(s, t) ==
    IF s = <<>> THEN TRUE
    ELSE IF t = <<>> THEN FALSE
    ELSE IF Head(s) = Head(t) THEN IsSubSeq(Tail(s), Tail(t))
    ELSE IsSubSeq(s, Tail(t))

\* C28: what _filter_warnings returns is the detected warnings with some left
\* out: the same records in the same order.  When it returns the empty list the
\* cycle goes on to the next session without a dispatch, and last_alert_time
\* and alert_count of the session keep their values.
GateOutput ==
    [][last_event'.kind = "gate" =>
          /\ IsSubSeq(last_event'.filt, last_event'.warnings)
          /\ last_event'.filt = <<>> =>
                /\ poller'[last_event'.thread].pc = "for"
                /\ alert_history' = alert_history
                /\ heap'[last_event'.sess] # Freed =>
                      /\ heap'[last_event'.sess].last_alert_time =
                            heap[last_event'.sess].last_alert_time
                      /\ heap'[last_event'.sess].alert_count =
                            heap[last_event'.sess].alert_count
          /\ last_event'.filt # <<>> =>
                /\ poller'[last_event'.thread].pc = "send"
                /\ poller'[last_event'.thread].filt = last_event'.filt]_vars

\* the gate has let two warnings through, in the order of detection
GateOutputWitness ==
    /\ last_event.kind = "gate"
    /\ Len(last_event.filt) = 2
    /\ last_event.filt[1].type = "high_wind"
    /\ last_event.filt[2].type = "severe_weather"

RegistrationAtomic ==
    [][last_event'.kind = "register" =>
          IF last_event'.status = "registered"
          THEN LET ref == DictGet(active_sessions', last_event'.user_id)
                   rows == RowsOf(user_sessions', last_event'.user_id)
               IN  /\ ref # NoRef
                   /\ Len(rows) = 1
                   /\ rows[1].end_time = isoformat(heap'[ref].end_time)
          ELSE RegistryUntouched]_vars

\* C31: no starvation.  When a cycle ends, every session of its snapshot that
\* had not expired has been polled in that cycle (last_check is the cycle's
\* `now`), also when the dispatch or the history write of another session of
\* the snapshot failed in that cycle.
NoStarvation ==
    CycleEnd(last_event) =>
        \A r \in last_event.live :
            (/\ heap[r] # Freed
             /\ last_event.kind = "dispatch" => r # last_event.sess) =>
                heap[r].last_check = last_event.now

\* C32: no duplicate notification after a recording failure.  When an email
\* or a push went out for a session and the alert_history write that follows
\* failed, the cooldown of the session runs from that send: until
\* alert_cooldown has passed the gate lets nothing of the session through, so
\* that the same warnings are not sent again.
NoDuplicateAfterRecordingFailure ==
    (/\ last_event.kind = "dispatch"
     /\ last_event.ref = last_event.sess
     /\ "ok" \in {last_event.report.email, last_event.report.push}
     /\ last_event.report.history = "failed") =>
        \A t \in last_event.at..(last_event.at + alert_cooldown_default - 1) :
            _filter_warnings(active_sessions, heap, last_event.user_id,
                             last_event.warnings, t) = <<>>

\* the fields of a session that polling does not write
Frame(session_data) ==
    [lat |-> session_data.lat, lon |-> session_data.lon,
     location_name |-> session_data.location_name, email |-> session_data.email,
     start_time |-> session_data.start_time, end_time |-> session_data.end_time,
     baseline_weather |-> session_data.baseline_weather,
     alert_cooldown |-> session_data.alert_cooldown,
     notification_prefs |-> session_data.notification_prefs]

\* C33: a step of a polling cycle writes only last_check, last_alert_time and
\* alert_count of a session: coordinates, location_name, email, start_time,
\* end_time, baseline_weather, alert_cooldown and notification_prefs keep
\* their values, and user_sessions is not written except, at the cleanup, the
\* rows of the users the cycle found expired.
PollingFrame ==
    [][last_event'.kind \in {"expired", "poll", "gate", "dispatch", "cleanup"} =>
          /\ Len(heap') = Len(heap)
          /\ \A r \in 1..Len(heap) :
                heap'[r] # Freed => Frame(heap'[r]) = Frame(heap[r])
          /\ Len(user_sessions') = Len(user_sessions)
          /\ \A j \in 1..Len(user_sessions) :
                (\/ last_event'.kind # "cleanup"
                 \/ \A k \in 1..Len(last_event'.to_remove) :
                       last_event'.to_remove[k] # user_sessions[j].user_id) =>
                    user_sessions'[j] = user_sessions[j]]_vars

\* a dispatch has gone through and the loop has done its bookkeeping on the
\* session
PollingFrameWitness ==
    /\ last_event.kind = "dispatch"
    /\ SendCompletes(last_event.report)
    /\ heap[last_event.sess] # Freed
    /\ heap[last_event.sess].last_alert_time = last_event.now
    /\ heap[last_event.sess].alert_count = Len(last_event.warnings)

-----------------------------------------------------------------------------
(* Properties of the detector *)

\* the warnings of the given type, in the order of the list
OfType(warnings, type) == SelectSeq(warnings, LAMBDA w : w.type = type)

\* the warnings that come from the forecast entries
FromForecast(warnings) ==
    SelectSeq(warnings, LAMBDA w :
        w.type \in {"upcoming_temp_change", "rain_starting", "high_wind",
                    "severe_weather"})

\* 0 for the baseline warning, 1 for a forecast warning, 2 for an official alert
Rank(w) ==
    IF w.type = "temperature_change" THEN 0
    ELSE IF w.type = "severe_alert" THEN 2 ELSE 1

\* C34: the list detection returns has the temperature_change warning first,
\* then the warnings of the forecast entries in the order of the entries, then
\* the severe_alert warnings, in the order the official alerts were given.
DetectorOrder ==
    last_event.kind = "detected" =>
        LET w   == last_event.warnings
            off == OfType(w, "severe_alert")
        IN  /\ \A i, j \in 1..Len(w) :
                  i < j =>
                     /\ Rank(w[i]) <= Rank(w[j])
                     /\ (Rank(w[i]) = 1 /\ Rank(w[j]) = 1) =>
                            w[i].message.at <= w[j].message.at
            /\ Len(OfType(w, "temperature_change")) <= 1
            /\ \A k \in 1..Len(off) :
                  /\ k <= Len(last_event.alerts)
                  /\ off[k].message.event =
                        Get(last_event.alerts[k], "event", "Weather Alert")

\* a baseline warning, warnings of two forecast entries and two different
\* official alerts in one list
DetectorOrderWitness ==
    /\ last_event.kind = "detected"
    /\ Len(OfType(last_event.warnings, "temperature_change")) = 1
    /\ \E i, j \in 1..Len(last_event.warnings) :
          /\ Rank(last_event.warnings[i]) = 1
          /\ Rank(last_event.warnings[j]) = 1
          /\ last_event.warnings[i].message.at < last_event.warnings[j].message.at
    /\ Len(OfType(last_event.warnings, "severe_alert")) = 2
    /\ last_event.alerts[1] # last_event.alerts[2]

\* C35: detection emits one temperature_change warning, of severity medium and
\* reporting the difference, when the current temperature and the session's
\* baseline temperature differ by temp_change or more, and none otherwise.
BaselineDelta ==
    last_event.kind = "detected" =>
        LET tc == OfType(last_event.warnings, "temperature_change")
            b  == last_event.baseline
            c  == last_event.current
        IN  IF HasTemp(b) /\ HasTemp(c) /\ Abs(c.main.temp - b.main.temp) >= temp_change
            THEN /\ Len(tc) = 1
                 /\ tc[1].severity = "medium"
                 /\ tc[1].message.diff = Abs(c.main.temp - b.main.temp)
                 /\ tc[1].message.b_temp = b.main.temp
                 /\ tc[1].message.c_temp = c.main.temp
            ELSE tc = <<>>

\* baseline 10, current 16: one warning, difference 6
BaselineDeltaWitness ==
    /\ last_event.kind = "detected"
    /\ last_event.baseline = CurrentWeather(10, "Clear")
    /\ last_event.current = CurrentWeather(16, "Clear")
    /\ Len(OfType(last_event.warnings, "temperature_change")) = 1
    /\ OfType(last_event.warnings, "temperature_change")[1].message.diff = 6

\* C36: the forecast warnings are those of the first forecast_window entries
\* that lie after now, whatever number of entries at or before now the list
\* begins with.
ForecastWindow ==
    last_event.kind = "detected" =>
        LET list   == Get(last_event.forecast, "list", <<>>)
            future == SelectSeq(list, LAMBDA item : item.dt > last_event.now)
            next   == SubSeq(future, 1, Min(forecast_window, Len(future)))
        IN  FromForecast(last_event.warnings) =
                ItemsWarnings(last_event.current, next, last_event.now)

\* C37: for every forecast entry that is examined, detection emits a
\* severe_weather warning of severity high exactly when the entry's condition
\* is Thunderstorm or Snow and is not the current condition; no other warning
\* made from the forecast has severity high.
SevereWeatherRule ==
    last_event.kind = "detected" =>
        LET w    == last_event.warnings
            list == Get(last_event.forecast, "list", <<>>)
            sev  == OfType(w, "severe_weather")
        IN  /\ \A i \in 1..Len(list) :
                  (i <= forecast_window /\ list[i].dt > last_event.now) =>
                      LET hits == {k \in 1..Len(sev) : sev[k].message.at = list[i].dt}
                      IN  IF /\ Condition(list[i]) \in {"Thunderstorm", "Snow"}
                             /\ Condition(list[i]) # Condition(last_event.current)
                          THEN /\ Cardinality(hits) = 1
                               /\ \A k \in hits :
                                     sev[k].message.cond = Condition(list[i])
                          ELSE hits = {}
            /\ \A k \in 1..Len(sev) : sev[k].severity = "high"
            /\ \A k \in 1..Len(w) :
                  (Rank(w[k]) = 1 /\ w[k].severity = "high") =>
                      w[k].type = "severe_weather"

\* during a thunderstorm a forecast of snow gives a severe_weather warning and
\* a forecast of more thunder gives none
SevereWeatherRuleWitness ==
    /\ last_event.kind = "detected"
    /\ Condition(last_event.current) = "Thunderstorm"
    /\ Len(last_event.forecast.list) >= 2
    /\ last_event.forecast.list[1].dt > last_event.now
    /\ Condition(last_event.forecast.list[1]) = "Thunderstorm"
    /\ Condition(last_event.forecast.list[2]) = "Snow"
    /\ Len(OfType(last_event.warnings, "severe_weather")) = 1
    /\ OfType(last_event.warnings, "severe_weather")[1].message.cond = "Snow"

\* C38: detection emits one severe_alert warning, of severity high and source
\* official_alert, for every entry of the official alerts, none when there is
\* no entry, whatever the baseline, the current weather and the forecast are.
OfficialAlerts ==
    last_event.kind = "detected" =>
        LET off == OfType(last_event.warnings, "severe_alert")
        IN  /\ Len(off) = Len(last_event.alerts)
            /\ \A k \in 1..Len(off) :
                  /\ off[k].severity = "high"
                  /\ off[k].source = "official_alert"
            /\ \A k \in 1..Len(last_event.warnings) :
                  last_event.warnings[k].source = "official_alert" =>
                      last_event.warnings[k].type = "severe_alert"

\* two official alerts and nothing else to report: two warnings
OfficialAlertsWitness ==
    /\ last_event.kind = "detected"
    /\ Len(last_event.alerts) = 2
    /\ last_event.baseline = ErrorBody
    /\ last_event.forecast.list = <<>>
    /\ Len(last_event.warnings) = 2
    /\ \A k \in 1..2 : last_event.warnings[k].type = "severe_alert"

====
